---- MODULE Spec2Model ----
(***************************************************************************)
(* QuranRAG: the transcript annotation pipeline (lib/processor), its       *)
(* start/poll route (api/process), the Arabic text utilities               *)
(* (lib/arabic-utils) and the viewer's marker parser.                      *)
(*                                                                         *)
(* Strings are sequences of one-character strings; a JavaScript index i    *)
(* (0-based) is position i+1 of the sequence.  Confidences and             *)
(* similarities are hundredths (0.5 is 50).  A nullable value is the empty *)
(* set (null) or a singleton set.                                          *)
(***************************************************************************)
EXTENDS Integers, Sequences, FiniteSets, TLC

VARIABLES
    text,              \* transcripts.original_text of the one transcript
    status,            \* transcripts.status
    db_annotated_text, \* transcripts.annotated_text (nullable)
    db_annotations,    \* rows of the annotations table, in insertion order
    pc,                \* per start request: where its handler / run stands
    fetched,           \* per request: the status the POST handler read
    response,          \* per request: HTTP status of the POST answer, 0 = none yet
    run,               \* per request: the locals of its processTranscript call
    writes,            \* per request: the status updates its run has issued
    externals,         \* what the external services may answer in this behaviour
    calls,             \* per request: what they did answer (kept when traced)
    polled,            \* the status poll (GET /api/process) and what it has read
    input,             \* argument of the utility under test (utility specifications)
    output             \* its result

vars == <<text, status, db_annotated_text, db_annotations, pc, fetched, response,
          run, writes, externals, calls, polled, input, output>>

----------------------------------------------------------------------------
(* Nullable values *)

Null == {}
Some(x) == {x}
Val(o) == CHOOSE x \in o : TRUE

----------------------------------------------------------------------------
(* JavaScript string primitives *)

\* String.prototype.substring(from, to), indices clamped to the string
substring(s, from, to) ==
    LET lo == IF from < 0 THEN 0 ELSE IF from > Len(s) THEN Len(s) ELSE from
        hi == IF to < 0 THEN 0 ELSE IF to > Len(s) THEN Len(s) ELSE to
        a  == IF lo <= hi THEN lo ELSE hi
        b  == IF lo <= hi THEN hi ELSE lo
    IN  SubSeq(s, a + 1, b)

\* String.prototype.substring(from)
substringFrom(s, from) == substring(s, from, Len(s))

\* does needle occur in hay at 0-based index i
OccursAt(hay, needle, i) ==
    /\ i >= 0
    /\ i + Len(needle) <= Len(hay)
    /\ SubSeq(hay, i + 1, i + Len(needle)) = needle

\* String.prototype.indexOf: the least index of an occurrence, -1 if none
indexOf(hay, needle) ==
    LET hits == {i \in 0..Len(hay) : OccursAt(hay, needle, i)}
    IN  IF hits = {} THEN -1
        ELSE CHOOSE i \in hits : \A j \in hits : i <= j

\* the lower-case mapping of one character; the dotted capital I is the
\* character whose lower case is two code units long
LowerChar(c) ==
    CASE c = "A" -> <<"a">>
      [] c = "B" -> <<"b">>
      [] c = "X" -> <<"x">>
      [] c = "I_DOT" -> <<"i", "DOT_ABOVE">>
      [] OTHER -> <<c>>

RECURSIVE toLowerCase(_)
toLowerCase(s) ==
    IF s = <<>> THEN <<>> ELSE LowerChar(Head(s)) \o toLowerCase(Tail(s))

\* the characters matched by \s and removed by trim()
IsSpace(c) == c \in {" ", "\n", "\t"}

RECURSIVE trimStart(_)
trimStart(s) ==
    IF s # <<>> /\ IsSpace(Head(s)) THEN trimStart(Tail(s)) ELSE s

RECURSIVE trimEnd(_)
trimEnd(s) ==
    IF s # <<>> /\ IsSpace(s[Len(s)]) THEN trimEnd(SubSeq(s, 1, Len(s) - 1)) ELSE s

trim(s) == trimEnd(trimStart(s))

RECURSIVE Digits(_)
\* Number to decimal string, as a template literal prints a non-negative integer
Digits(n) ==
    LET d == <<"0", "1", "2", "3", "4", "5", "6", "7", "8", "9">>
    IN  IF n < 10 THEN <<d[n + 1]>> ELSE Digits(n \div 10) \o <<d[(n % 10) + 1]>>

\* all strings over an alphabet up to a length
StringsUpTo(alphabet, n) == UNION {[1..k -> alphabet] : k \in 0..n}

----------------------------------------------------------------------------
(* lib/arabic-utils: normalization *)

\* ARABIC_DIACRITICS, the class U+064B..U+065F and U+0670: the model's alphabet has two of them
ARABIC_DIACRITICS == {"U064E_FATHA", "U0670_SUPERSCRIPT_ALIF"}

\* ARABIC_NORMALIZATIONS: [pattern, replacement] pairs, applied in this order
ARABIC_NORMALIZATIONS ==
    << [pattern |-> {"U0622", "U0623", "U0625"}, replacement |-> "U0627_ALIF"],
       [pattern |-> {"U0629_TA_MARBUTA"},        replacement |-> "U0647_HA"],
       [pattern |-> {"U0649_ALIF_MAKSURA"},      replacement |-> "U064A_YA"],
       [pattern |-> {"U0624_WAW_HAMZA"},         replacement |-> "U0648_WAW"],
       [pattern |-> {"U0626_YA_HAMZA"},          replacement |-> "U064A_YA"] >>

\* text.replace(/[set]/g, to) for a character class
ReplaceClass(s, class, to) ==
    [i \in 1..Len(s) |-> IF s[i] \in class THEN to ELSE s[i]]

RECURSIVE RemoveClass(_, _)
\* text.replace(/[set]/g, '')
RemoveClass(s, class) ==
    IF s = <<>> THEN <<>>
    ELSE IF Head(s) \in class THEN RemoveClass(Tail(s), class)
    ELSE <<Head(s)>> \o RemoveClass(Tail(s), class)

removeDiacritics(s) == RemoveClass(s, ARABIC_DIACRITICS)

RECURSIVE ApplyNormalizations(_, _)
\* the for-loop over ARABIC_NORMALIZATIONS
ApplyNormalizations(s, rules) ==
    IF rules = <<>> THEN s
    ELSE ApplyNormalizations(
             ReplaceClass(s, Head(rules).pattern, Head(rules).replacement),
             Tail(rules))

RECURSIVE CollapseSpaces(_)
\* text.replace(/\s+/g, ' '): every maximal run of whitespace becomes one space
CollapseSpaces(s) ==
    IF s = <<>> THEN <<>>
    ELSE IF IsSpace(Head(s)) THEN <<" ">> \o CollapseSpaces(trimStart(s))
    ELSE <<Head(s)>> \o CollapseSpaces(Tail(s))

\* a plausible slip: whitespace is collapsed before the diacritics are removed
normalizeArabic_CollapseFirst(s) ==
    removeDiacritics(ApplyNormalizations(trim(CollapseSpaces(s)), ARABIC_NORMALIZATIONS))

normalizeArabic(s) ==
    trim(CollapseSpaces(ApplyNormalizations(removeDiacritics(s), ARABIC_NORMALIZATIONS)))

----------------------------------------------------------------------------
(* lib/arabic-utils: chunking *)

RECURSIVE DropNewlines(_)
\* the rest of a separator run matched by \n+
DropNewlines(s) ==
    IF s # <<>> /\ Head(s) = "\n" THEN DropNewlines(Tail(s)) ELSE s

RECURSIVE SplitParagraphs(_, _)
\* text.split(/\n\n+/): cur is the piece collected so far
SplitParagraphs(s, cur) ==
    IF s = <<>> THEN <<cur>>
    ELSE IF Len(s) >= 2 /\ s[1] = "\n" /\ s[2] = "\n"
         THEN <<cur>> \o SplitParagraphs(DropNewlines(s), <<>>)
    ELSE SplitParagraphs(Tail(s), Append(cur, Head(s)))

RECURSIVE SplitSentences(_, _)
\* paragraph.split(/(?<=[.!?])\s+/): a run of whitespace that follows
\* terminal punctuation separates; cur is the piece collected so far
SplitSentences(s, cur) ==
    IF s = <<>> THEN <<cur>>
    ELSE IF /\ cur # <<>>
            /\ cur[Len(cur)] \in {".", "!", "?"}
            /\ IsSpace(Head(s))
         THEN <<cur>> \o SplitSentences(trimStart(s), <<>>)
    ELSE SplitSentences(Tail(s), Append(cur, Head(s)))

RECURSIVE SentenceLoop(_, _, _, _)
\* the inner for-loop over the sentences of an over-long paragraph;
\* the result is [chunks, sentenceChunk]
SentenceLoop(sentences, chunks, sentenceChunk, maxChunkSize) ==
    IF sentences = <<>> THEN [chunks |-> chunks, sentenceChunk |-> sentenceChunk]
    ELSE LET sentence == Head(sentences)
         IN  IF Len(sentenceChunk) + Len(sentence) > maxChunkSize
             THEN SentenceLoop(Tail(sentences),
                      IF sentenceChunk # <<>>
                      THEN Append(chunks, trim(sentenceChunk)) ELSE chunks,
                      sentence, maxChunkSize)
             ELSE SentenceLoop(Tail(sentences), chunks,
                      sentenceChunk \o (IF sentenceChunk # <<>> THEN <<" ">> ELSE <<>>)
                                    \o sentence,
                      maxChunkSize)

RECURSIVE ParagraphLoop_TailLost(_, _, _, _)
\* a loop that starts afresh after an over-long paragraph, leaving its last
\* sentences out
ParagraphLoop_TailLost(paragraphs, chunks, currentChunk, maxChunkSize) ==
    IF paragraphs = <<>>
    THEN IF currentChunk # <<>> THEN Append(chunks, trim(currentChunk)) ELSE chunks
    ELSE LET paragraph == Head(paragraphs)
         IN  IF Len(currentChunk) + Len(paragraph) > maxChunkSize
             THEN LET pushed == IF currentChunk # <<>>
                                THEN Append(chunks, trim(currentChunk)) ELSE chunks
                  IN  IF Len(paragraph) > maxChunkSize
                      THEN LET r == SentenceLoop(SplitSentences(paragraph, <<>>),
                                                 pushed, <<>>, maxChunkSize)
                           IN  ParagraphLoop_TailLost(Tail(paragraphs), r.chunks,
                                                      <<>>, maxChunkSize)
                      ELSE ParagraphLoop_TailLost(Tail(paragraphs), pushed,
                                                  paragraph, maxChunkSize)
             ELSE ParagraphLoop_TailLost(Tail(paragraphs), chunks,
                      currentChunk \o (IF currentChunk # <<>> THEN <<"\n", "\n">> ELSE <<>>)
                                   \o paragraph,
                      maxChunkSize)

RECURSIVE ParagraphLoop(_, _, _, _)
\* the outer for-loop over the paragraphs and the final push
ParagraphLoop(paragraphs, chunks, currentChunk, maxChunkSize) ==
    IF paragraphs = <<>>
    THEN IF currentChunk # <<>> THEN Append(chunks, trim(currentChunk)) ELSE chunks
    ELSE LET paragraph == Head(paragraphs)
         IN  IF Len(currentChunk) + Len(paragraph) > maxChunkSize
             THEN LET pushed == IF currentChunk # <<>>
                                THEN Append(chunks, trim(currentChunk)) ELSE chunks
                  IN  IF Len(paragraph) > maxChunkSize
                      THEN LET r == SentenceLoop(SplitSentences(paragraph, <<>>),
                                                 pushed, <<>>, maxChunkSize)
                           IN  ParagraphLoop(Tail(paragraphs), r.chunks,
                                             r.sentenceChunk, maxChunkSize)
                      ELSE ParagraphLoop(Tail(paragraphs), pushed, paragraph,
                                         maxChunkSize)
             ELSE ParagraphLoop(Tail(paragraphs), chunks,
                      currentChunk \o (IF currentChunk # <<>> THEN <<"\n", "\n">> ELSE <<>>)
                                   \o paragraph,
                      maxChunkSize)

splitIntoChunks(s, maxChunkSize) ==
    ParagraphLoop(SplitParagraphs(s, <<>>), <<>>, <<>>, maxChunkSize)

RECURSIVE Join(_, _)
\* Array.prototype.join(sep)
Join(ss, sep) ==
    IF ss = <<>> THEN <<>>
    ELSE IF Len(ss) = 1 THEN Head(ss)
    ELSE Head(ss) \o sep \o Join(Tail(ss), sep)

----------------------------------------------------------------------------
(* lib/processor: reference ids and markers *)

\* confidence thresholds of the processor, in hundredths
CONFIDENCE_AUTO_ANNOTATE == 50

CONFIDENCE_SUGGEST == 30

\* JavaScript truthiness of a nullable string
Truthy(o) == o # Null /\ Val(o) # <<>>

createReferenceId(match) ==
    IF match.type = "quran"
    THEN Digits(match.reference.surah_number) \o <<":">>
             \o Digits(match.reference.ayah_number)
    ELSE match.reference.collection \o <<":">>
             \o Digits(match.reference.book_number) \o <<":">>
             \o Digits(match.reference.hadith_number)

createAnnotationMarkdown(verified) ==
    IF verified.match = Null \/ ~Truthy(verified.reference_id)
    THEN verified.detected.original_text
    ELSE LET originalText == verified.detected.original_text
         IN  IF Val(verified.match).type = "quran"
             THEN <<"[", "[", "q", "u", "r", "a", "n", ":">>
                      \o Val(verified.reference_id) \o <<"|">> \o originalText
                      \o <<"]", "]">>
             ELSE <<"[", "[", "h", "a", "d", "i", "t", "h", ":">>
                      \o Val(verified.reference_id) \o <<"|">> \o originalText
                      \o <<"]", "]">>

----------------------------------------------------------------------------
(* lib/processor: step 4 of processTranscript, from the verified matches *)
(* to the annotated text, the Annotation records and the statistics      *)

\* a plausible slip: the suggestion threshold in place of the acceptance one
Accepted_Suggest(m) == m.confidence >= CONFIDENCE_SUGGEST /\ m.match # Null

\* the filter of sortedMatches
Accepted(m) == m.confidence >= CONFIDENCE_AUTO_ANNOTATE /\ m.match # Null

RECURSIVE InsertByStart(_, _)
\* x goes behind every element that does not sort after it
InsertByStart(x, sorted) ==
    IF sorted = <<>> THEN <<x>>
    ELSE IF Head(sorted).detected.start_index >= x.detected.start_index
         THEN <<Head(sorted)>> \o InsertByStart(x, Tail(sorted))
    ELSE <<x>> \o sorted

RECURSIVE SortByStartDesc(_, _)
\* .sort((a, b) => b.detected.start_index - a.detected.start_index):
\* descending by advisory start offset; Array.prototype.sort is stable
SortByStartDesc(ms, sorted) ==
    IF ms = <<>> THEN sorted
    ELSE SortByStartDesc(Tail(ms), InsertByStart(Head(ms), sorted))

RECURSIVE PlacementLoop(_, _)
\* the for-loop over sortedMatches; acc carries annotations, annotatedText,
\* the two match counters and the value of actualIndex of every iteration
\* that pushed an annotation
PlacementLoop(sortedMatches, acc) ==
    IF sortedMatches = <<>> THEN acc
    ELSE LET verified == Head(sortedMatches)
         IN  IF verified.match = Null \/ ~Truthy(verified.reference_id)
             THEN PlacementLoop(Tail(sortedMatches), acc)
             ELSE LET annotation ==
                          [type           |-> Val(verified.match).type,
                           reference_id   |-> Val(verified.reference_id),
                           original_text  |-> verified.detected.original_text,
                           corrected_text |-> verified.detected.corrected_text,
                           confidence     |-> verified.confidence,
                           start_index    |-> verified.detected.start_index,
                           end_index      |-> verified.detected.end_index]
                      originalText == verified.detected.original_text
                      annotationFormat == createAnnotationMarkdown(verified)
                      actualIndex == indexOf(toLowerCase(acc.annotatedText),
                                             toLowerCase(originalText))
                  IN  PlacementLoop(Tail(sortedMatches),
                        [annotations |-> Append(acc.annotations, annotation),
                         quran_matches |-> acc.quran_matches
                             + (IF Val(verified.match).type = "quran" THEN 1 ELSE 0),
                         hadith_matches |-> acc.hadith_matches
                             + (IF Val(verified.match).type = "quran" THEN 0 ELSE 1),
                         annotatedText |->
                             IF actualIndex # -1
                             THEN substring(acc.annotatedText, 0, actualIndex)
                                      \o annotationFormat
                                      \o substringFrom(acc.annotatedText,
                                             actualIndex + Len(originalText))
                             ELSE acc.annotatedText,
                         actualIndexes |-> Append(acc.actualIndexes, actualIndex)])

\* a count of the skipped that leaves out the matches without entry
LowConfidence_WithEntry(m) ==
    m.confidence < CONFIDENCE_AUTO_ANNOTATE /\ m.match # Null

\* the filter of "Count skipped"
LowConfidence(m) == m.confidence < CONFIDENCE_AUTO_ANNOTATE

\* step 4 as a whole
GenerateAnnotations(originalText, verifiedMatches) ==
    LET sortedMatches == SortByStartDesc(SelectSeq(verifiedMatches, Accepted), <<>>)
        placed == PlacementLoop(sortedMatches,
                      [annotations |-> <<>>, quran_matches |-> 0,
                       hadith_matches |-> 0, annotatedText |-> originalText,
                       actualIndexes |-> <<>>])
    IN  [annotations |-> placed.annotations,
         annotatedText |-> placed.annotatedText,
         actualIndexes |-> placed.actualIndexes,
         quran_matches |-> placed.quran_matches,
         hadith_matches |-> placed.hadith_matches,
         low_confidence_skipped |-> Len(SelectSeq(verifiedMatches, LowConfidence))]

----------------------------------------------------------------------------
(* lib/processor: detection and matching of one item, given what the      *)
(* external call answered                                                  *)

\* detectReferences: the value handed back to the loop over the chunk's
\* detections.  A thrown call, empty content, unparsable content and a
\* falsy or missing detections field give the empty list; any other value
\* of the field is returned as it is, a list or not
detectReferences(resp) ==
    IF resp.kind = "list"
    THEN [isList |-> TRUE, items |-> resp.detections]
    ELSE IF resp.kind = "notList"
    THEN [isList |-> FALSE, items |-> <<>>]
    ELSE [isList |-> TRUE, items |-> <<>>]

\* a verification whose failure picks the first entry
verifyMatch_FailureKeepsTop(resp) ==
    IF resp.kind = "json"
    THEN [match_index |-> resp.match_index, confidence |-> resp.confidence]
    ELSE [match_index |-> Some(0), confidence |-> 0]

\* verifyMatch: a thrown call and unparsable content are caught, empty
\* content is answered directly, anything parsed is returned unchecked
verifyMatch(resp) ==
    IF resp.kind = "json"
    THEN [match_index |-> resp.match_index, confidence |-> resp.confidence]
    ELSE [match_index |-> Null, confidence |-> 0]

\* is the verification call reached: searchAll returned, and not the empty
\* list
VerifyCalled(search) == ~search.threw /\ Len(search.matches) # 0

\* a matcher that keeps the best entry when the verification declares none
matchAndVerify_DeclinedKeepsTop(detection, search, resp) ==
    LET noMatch == [detected |-> detection, match |-> Null, confidence |-> 0,
                    reference_id |-> Null]
    IN  IF ~VerifyCalled(search) THEN noMatch
        ELSE LET verificationResult == verifyMatch(resp)
                 index == IF verificationResult.match_index = Null THEN 0
                          ELSE Val(verificationResult.match_index)
             IN  IF index \notin 0..(Len(search.matches) - 1) THEN noMatch
                 ELSE [detected |-> detection,
                       match |-> Some(search.matches[index + 1]),
                       confidence |-> verificationResult.confidence,
                       reference_id |->
                           Some(createReferenceId(search.matches[index + 1]))]

matchAndVerify(detection, search, resp) ==
    LET noMatch == [detected |-> detection, match |-> Null, confidence |-> 0,
                    reference_id |-> Null]
    IN  IF ~VerifyCalled(search) THEN noMatch
        ELSE LET verificationResult == verifyMatch(resp)
             IN  IF verificationResult.match_index = Null
                 THEN [detected |-> detection, match |-> Null,
                       confidence |-> verificationResult.confidence,
                       reference_id |-> Null]
                 ELSE IF Val(verificationResult.match_index)
                             \notin 0..(Len(search.matches) - 1)
                 \* bestMatch is undefined, createReferenceId throws, the
                 \* catch answers
                 THEN noMatch
                 ELSE LET bestMatch ==
                              search.matches[Val(verificationResult.match_index) + 1]
                      IN  [detected |-> detection, match |-> Some(bestMatch),
                           confidence |-> verificationResult.confidence,
                           reference_id |-> Some(createReferenceId(bestMatch))]

----------------------------------------------------------------------------
(* Bounds and the answers of the external services *)

\* start requests (POST /api/process) for the transcript
MaxRequests == 2

\* detections one run collects over all its chunks
MaxDetections == 2

\* the chunk size processTranscript passes to splitIntoChunks is 2000; the
\* model scales it to the length of its transcripts
PipelineChunkSize == 3

Requests == 1..MaxRequests

Str_a == <<"a">>
Str_ab == <<"a", "b">>
Str_z == <<"z">>

\* original_text of the transcripts a behaviour may be about
Transcripts ==
    { <<"X", " ", "a">>,
      <<"a", "b", " ", "A", "b">>,
      <<"a", "b", "\n", "\n", "c", "d">> }

Verse(surah, ayah, sim) ==
    [type |-> "quran",
     reference |-> [surah_number |-> surah, ayah_number |-> ayah],
     similarity |-> sim]

Tradition(coll, book, number, sim) ==
    [type |-> "hadith",
     reference |-> [collection |-> coll, book_number |-> book,
                    hadith_number |-> number],
     similarity |-> sim]

Str_bukhari == <<"b", "u", "k", "h", "a", "r", "i">>

Detection(t, start) ==
    [type |-> "quran", original_text |-> t, corrected_text |-> t,
     context |-> <<>>, start_index |-> start, end_index |-> start + Len(t)]

\* the candidates the detection model may report for a chunk
Candidates(ext) ==
    IF ext = "narrow" THEN {Detection(Str_a, 0)}
    ELSE IF ext = "traced" THEN {Detection(Str_a, 0), Detection(Str_z, 0)}
    ELSE {Detection(Str_a, 0), Detection(Str_ab, 2), Detection(Str_z, 0)}

\* what the detection call may answer when the run can still take n detections
DetectorResponses(ext, n) ==
    {[kind |-> "list", detections |-> ds] :
        ds \in UNION {[1..k -> Candidates(ext)] : k \in 0..n}}
    \cup {[kind |-> k] : k \in IF ext = "narrow" THEN {"throws"}
                                ELSE {"throws", "empty", "nonJSON", "noField",
                                      "notList"}}

\* what searchAll may answer: it throws, or returns its matches, best first
SearchOutcomes(ext) ==
    IF ext = "narrow"
    THEN {[threw |-> FALSE, matches |-> <<Verse(1, 1, 52)>>]}
    ELSE IF ext = "traced"
    THEN {[threw |-> TRUE, matches |-> <<>>],
          [threw |-> FALSE, matches |-> <<>>],
          [threw |-> FALSE,
           matches |-> <<Verse(1, 1, 52), Tradition(Str_bukhari, 1, 1, 50)>>]}
    ELSE {[threw |-> TRUE, matches |-> <<>>],
          [threw |-> FALSE, matches |-> <<>>],
          [threw |-> FALSE, matches |-> <<Verse(1, 1, 52)>>],
          [threw |-> FALSE,
           matches |-> <<Verse(1, 1, 52), Tradition(Str_bukhari, 1, 1, 50)>>]}

\* what the verification call may answer
VerifyResponses(ext) ==
    IF ext = "narrow"
    THEN {[kind |-> "json", match_index |-> Some(0), confidence |-> 80]}
    ELSE IF ext = "traced"
    THEN {[kind |-> "throws"],
          [kind |-> "json", match_index |-> Null, confidence |-> 80],
          [kind |-> "json", match_index |-> Some(0), confidence |-> 80],
          [kind |-> "json", match_index |-> Some(1), confidence |-> 30]}
    ELSE {[kind |-> k] : k \in {"throws", "empty", "nonJSON"}}
         \cup {[kind |-> "json", match_index |-> Null, confidence |-> 80],
               [kind |-> "json", match_index |-> Some(0), confidence |-> 30],
               [kind |-> "json", match_index |-> Some(0), confidence |-> 80],
               [kind |-> "json", match_index |-> Some(1), confidence |-> 80],
               [kind |-> "json", match_index |-> Some(5), confidence |-> 80]}

\* how a call of the persistence client may end: done, an error object
\* returned (which the processor never inspects), or an exception
PersistOutcomes == {"ok", "error", "throw"}

----------------------------------------------------------------------------
(* api/process POST and lib/processor processTranscript as steps between  *)
(* the awaited external calls                                              *)

\* no status poll
NoPoll == [pc |-> "absent", status |-> "none", annotations |-> <<>>, code |-> 0]

\* no external call answered yet
NoCalls == [detect |-> <<>>, match |-> <<>>]

\* the answers of the external services are kept in traced behaviours
Trace(log, entry) == IF externals = "traced" THEN Append(log, entry) ELSE log

\* the locals of processTranscript at entry
NewRun(originalText) ==
    [text |-> originalText,
     annotations |-> <<>>,
     annotatedText |-> originalText,
     stats |-> [total_detected |-> 0, quran_matches |-> 0, hadith_matches |-> 0,
                low_confidence_skipped |-> 0],
     chunks |-> <<>>,
     i |-> 0,
     chunkOffset |-> 0,
     allDetections |-> <<>>,
     verifiedMatches |-> <<>>,
     actualIndexes |-> <<>>]

NoRun == NewRun(<<>>)

\* where a run continues once its detections are collected
AfterDetection(allDetections) ==
    IF Len(allDetections) = 0 THEN "annotate" ELSE "match"

\* the handler's select of the transcript row
PostSelect(r) ==
    /\ pc[r] = "idle"
    /\ \E found \in BOOLEAN :
          IF found
          THEN /\ fetched' = [fetched EXCEPT ![r] = status]
               /\ pc' = [pc EXCEPT ![r] = "selected"]
               /\ UNCHANGED response
          ELSE /\ response' = [response EXCEPT ![r] = 404]
               /\ pc' = [pc EXCEPT ![r] = "answered"]
               /\ UNCHANGED fetched
    /\ UNCHANGED <<text, status, db_annotated_text, db_annotations, run, writes,
                   externals, calls, input, output,
                   polled>>

\* the two status checks, then the non-blocking call of processTranscript
PostCheck(r) ==
    /\ pc[r] = "selected"
    /\ IF fetched[r] = "processing" \/ fetched[r] = "complete"
       THEN /\ response' = [response EXCEPT ![r] = 409]
            /\ pc' = [pc EXCEPT ![r] = "answered"]
            /\ UNCHANGED run
       ELSE /\ response' = [response EXCEPT ![r] = 200]
            /\ run' = [run EXCEPT ![r] = NewRun(text)]
            /\ pc' = [pc EXCEPT ![r] = "start"]
    /\ UNCHANGED <<text, status, db_annotated_text, db_annotations, fetched, writes,
                   externals, calls, input, output,
                   polled>>

\* update({ status: 'processing' }), then step 1
UpdateProcessing(r) ==
    /\ pc[r] = "start"
    /\ \E o \in PersistOutcomes :
          /\ writes' = [writes EXCEPT
                          ![r] = Append(@, [status |-> "processing", outcome |-> o])]
          /\ status' = IF o = "ok" THEN "processing" ELSE status
          /\ IF o = "throw"
             THEN /\ pc' = [pc EXCEPT ![r] = "catch"]
                  /\ UNCHANGED run
             ELSE LET chunks == splitIntoChunks(run[r].text, PipelineChunkSize)
                  IN  /\ run' = [run EXCEPT ![r].chunks = chunks]
                      /\ pc' = [pc EXCEPT ![r] = IF Len(chunks) = 0
                                                 THEN AfterDetection(<<>>)
                                                 ELSE "detect"]
    /\ UNCHANGED <<text, db_annotated_text, db_annotations, fetched, response,
                   externals, calls, input, output,
                   polled>>

\* one iteration of the loop over the chunks
DetectChunk(r) ==
    /\ pc[r] = "detect"
    /\ LET chunk == run[r].chunks[run[r].i + 1]
       IN  \E resp \in DetectorResponses(externals,
                          MaxDetections - Len(run[r].allDetections)) :
              LET detections == detectReferences(resp)
                  rebased == [k \in 1..Len(detections.items) |->
                                [detections.items[k] EXCEPT
                                    !.start_index = @ + run[r].chunkOffset,
                                    !.end_index = @ + run[r].chunkOffset]]
                  all == run[r].allDetections \o rebased
                  last == run[r].i + 1 = Len(run[r].chunks)
              IN  IF ~detections.isList
                  \* for...of over a value that is no list throws
                  THEN /\ pc' = [pc EXCEPT ![r] = "catch"]
                       /\ calls' = [calls EXCEPT ![r].detect = Trace(@, resp)]
                       /\ UNCHANGED run
                  ELSE /\ calls' = [calls EXCEPT ![r].detect = Trace(@, resp)]
                       /\ run' = [run EXCEPT
                                    ![r].allDetections = all,
                                    ![r].chunkOffset = @ + Len(chunk) + 2,
                                    ![r].i = @ + 1,
                                    ![r].stats.total_detected =
                                        IF last THEN Len(all) ELSE @]
                       /\ pc' = [pc EXCEPT ![r] = IF last THEN AfterDetection(all)
                                                  ELSE "detect"]
    /\ UNCHANGED <<text, status, db_annotated_text, db_annotations, fetched,
                   response, writes, externals, input, output,
                   polled>>

\* one iteration of the loop over the detections
MatchDetection(r) ==
    /\ pc[r] = "match"
    /\ LET detection == run[r].allDetections[Len(run[r].verifiedMatches) + 1]
       IN  \E search \in SearchOutcomes(externals),
              resp \in VerifyResponses(externals) :
              LET verified == matchAndVerify(detection, search, resp)
              IN  /\ run' = [run EXCEPT ![r].verifiedMatches = Append(@, verified)]
                  /\ calls' = [calls EXCEPT
                                 ![r].match =
                                     Trace(@, [search |-> search,
                                               verify |-> IF VerifyCalled(search)
                                                          THEN Some(resp)
                                                          ELSE Null])]
                  /\ pc' = [pc EXCEPT ![r] =
                               IF Len(run[r].verifiedMatches) + 1
                                      = Len(run[r].allDetections)
                               THEN "annotate" ELSE "match"]
    /\ UNCHANGED <<text, status, db_annotated_text, db_annotations, fetched,
                   response, writes, externals, input, output,
                   polled>>

\* step 4 and the count of the skipped
Annotate(r) ==
    /\ pc[r] = "annotate"
    /\ LET g == GenerateAnnotations(run[r].annotatedText, run[r].verifiedMatches)
       IN  run' = [run EXCEPT
                     ![r].annotations = g.annotations,
                     ![r].annotatedText = g.annotatedText,
                     ![r].actualIndexes = g.actualIndexes,
                     ![r].stats.quran_matches = g.quran_matches,
                     ![r].stats.hadith_matches = g.hadith_matches,
                     ![r].stats.low_confidence_skipped = g.low_confidence_skipped]
    /\ pc' = [pc EXCEPT ![r] = "save"]
    /\ UNCHANGED <<text, status, db_annotated_text, db_annotations, fetched,
                   response, writes, externals, calls, input, output,
                   polled>>

\* update({ annotated_text, status: 'complete' })
SaveTranscript(r) ==
    /\ pc[r] = "save"
    /\ \E o \in PersistOutcomes :
          /\ writes' = [writes EXCEPT
                          ![r] = Append(@, [status |-> "complete", outcome |-> o])]
          /\ status' = IF o = "ok" THEN "complete" ELSE status
          /\ db_annotated_text' = IF o = "ok" THEN Some(run[r].annotatedText)
                                  ELSE db_annotated_text
          /\ pc' = [pc EXCEPT ![r] =
                       IF o = "throw" THEN "catch"
                       ELSE IF Len(run[r].annotations) > 0 THEN "insert"
                       ELSE "returned"]
    /\ UNCHANGED <<text, db_annotations, fetched, response, run, externals, calls,
                   input, output,
                   polled>>

\* insert(annotations), then the return of the result
InsertAnnotations(r) ==
    /\ pc[r] = "insert"
    /\ \E o \in PersistOutcomes :
          /\ db_annotations' = IF o = "ok" THEN db_annotations \o run[r].annotations
                               ELSE db_annotations
          /\ pc' = [pc EXCEPT ![r] = IF o = "throw" THEN "catch" ELSE "returned"]
    /\ UNCHANGED <<text, status, db_annotated_text, fetched, response, run, writes,
                   externals, calls, input, output,
                   polled>>

\* the catch block: update({ status: 'error' }), then the rethrow
CatchError(r) ==
    /\ pc[r] = "catch"
    /\ \E o \in PersistOutcomes :
          /\ writes' = [writes EXCEPT
                          ![r] = Append(@, [status |-> "error", outcome |-> o])]
          /\ status' = IF o = "ok" THEN "error" ELSE status
    /\ pc' = [pc EXCEPT ![r] = "thrown"]
    /\ UNCHANGED <<text, db_annotated_text, db_annotations, fetched, response, run,
                   externals, calls, input, output,
                   polled>>

Step(r) ==
    \/ PostSelect(r)
    \/ PostCheck(r)
    \/ UpdateProcessing(r)
    \/ DetectChunk(r)
    \/ MatchDetection(r)
    \/ Annotate(r)
    \/ SaveTranscript(r)
    \/ InsertAnnotations(r)
    \/ CatchError(r)

Next == \E r \in Requests : Step(r)

\* a pending or failed transcript and the given start requests
InitWith(ext, arriving) ==
    /\ text \in Transcripts
    /\ status \in {"pending", "error"}
    /\ db_annotated_text = Null
    /\ db_annotations = <<>>
    /\ pc = [r \in Requests |-> IF r \in arriving THEN "idle" ELSE "absent"]
    /\ fetched = [r \in Requests |-> "none"]
    /\ response = [r \in Requests |-> 0]
    /\ run = [r \in Requests |-> NoRun]
    /\ writes = [r \in Requests |-> <<>>]
    /\ externals = ext
    /\ calls = [r \in Requests |-> NoCalls]
    /\ polled = NoPoll
    /\ input = Null
    /\ output = Null

\* one start request, the external services answering anything
Init == InitWith("wide", {1})

Spec == Init /\ [][Next]_vars

\* concurrent start requests, the external services answering one way
InitStart == InitWith("narrow", Requests)

SpecStart == InitStart /\ [][Next]_vars

\* one start request, the answers of the external services kept
InitCalls == InitWith("traced", {1})

SpecCalls == InitCalls /\ [][Next]_vars

----------------------------------------------------------------------------
(* Claims about one run of the pipeline (Spec) and about concurrent start *)
(* requests (SpecStart)                                                    *)

\* the run of request r has generated its annotations
Generated(r) == pc[r] \in {"save", "insert", "returned"}

\* a processTranscript call of request r is executing
Executing(r) ==
    pc[r] \in {"start", "detect", "match", "annotate", "save", "insert", "catch"}

\* is the record a the Annotation built from the verified match v
AnnotationOf(a, v) ==
    /\ v.match # Null
    /\ a.type = Val(v.match).type
    /\ a.reference_id = createReferenceId(Val(v.match))
    /\ a.original_text = v.detected.original_text
    /\ a.confidence = v.confidence

HasEntryAndConfidence(v) ==
    v.match # Null /\ v.confidence >= CONFIDENCE_AUTO_ANNOTATE

\* C1: no Annotation, returned or persisted, has a confidence below the
\* acceptance threshold 0.5, and every Annotation belongs to a verified match
\* that has a corpus entry: there are no more Annotations than verified
\* matches with an entry and a confidence of at least 0.5
C1_ConfidenceGate ==
    /\ \A r \in Requests :
          /\ \A k \in 1..Len(run[r].annotations) :
                /\ run[r].annotations[k].confidence >= CONFIDENCE_AUTO_ANNOTATE
                /\ \E j \in 1..Len(run[r].verifiedMatches) :
                      AnnotationOf(run[r].annotations[k], run[r].verifiedMatches[j])
          /\ Len(run[r].annotations)
                 <= Len(SelectSeq(run[r].verifiedMatches, HasEntryAndConfidence))
    /\ \A k \in 1..Len(db_annotations) :
          /\ db_annotations[k].confidence >= CONFIDENCE_AUTO_ANNOTATE
          /\ \E r \in Requests : \E j \in 1..Len(run[r].annotations) :
                run[r].annotations[j] = db_annotations[k]

\* C1 witness: a run has returned and persisted an Annotation while it
\* left out a verified match that has an entry but a confidence below 0.5
C1_Witness ==
    \E r \in Requests :
       /\ pc[r] = "returned"
       /\ Len(run[r].annotations) = 1
       /\ db_annotations = run[r].annotations
       /\ \E j \in 1..Len(run[r].verifiedMatches) :
             /\ run[r].verifiedMatches[j].match # Null
             /\ run[r].verifiedMatches[j].confidence < CONFIDENCE_AUTO_ANNOTATE

\* C2: a run issues the processing update exactly once, and after an update
\* to complete or error has been persisted it issues no update to another
\* status
C2_StatusTerminal ==
    \A r \in Requests :
       /\ Len(SelectSeq(writes[r], LAMBDA w : w.status = "processing")) <= 1
       /\ pc[r] \in {"returned", "thrown"}
             => Len(SelectSeq(writes[r], LAMBDA w : w.status = "processing")) = 1
       /\ \A i \in 1..Len(writes[r]) : \A j \in (i + 1)..Len(writes[r]) :
             (writes[r][i].outcome = "ok"
                 /\ writes[r][i].status \in {"complete", "error"})
                => writes[r][j].status = writes[r][i].status

\* C3: a start request that read processing or complete is answered 409 and
\* starts no run, and at most one run for the transcript is executing
C3_SingleRun ==
    /\ \A r \in Requests :
          (fetched[r] \in {"processing", "complete"} /\ pc[r] # "selected")
             => (response[r] = 409 /\ pc[r] = "answered" /\ run[r] = NoRun)
    /\ Cardinality({r \in Requests : Executing(r)}) <= 1

\* C4: an accepted match whose literal text was not found at its placement
\* has no Annotation: every Annotation had its text found
C4_UnplacedSkipped ==
    \A r \in Requests :
       Generated(r) =>
          /\ Len(run[r].actualIndexes) = Len(run[r].annotations)
          /\ \A k \in 1..Len(run[r].annotations) : run[r].actualIndexes[k] # -1

\* the marker of an Annotation record
MarkerOf(a) ==
    (IF a.type = "quran" THEN <<"[", "[", "q", "u", "r", "a", "n", ":">>
     ELSE <<"[", "[", "h", "a", "d", "i", "t", "h", ":">>)
        \o a.reference_id \o <<"|">> \o a.original_text \o <<"]", "]">>

\* the offsets of a are those of its marker, or of the label inside its
\* marker, somewhere in the document
PointsAtPlacement(a, document) ==
    LET marker == MarkerOf(a)
        labelAt == Len(marker) - Len(a.original_text) - 2
    IN  \/ /\ OccursAt(document, marker, a.start_index)
           /\ a.end_index = a.start_index + Len(marker)
        \/ /\ OccursAt(document, marker, a.start_index - labelAt)
           /\ a.end_index = a.start_index + Len(a.original_text)

\* C5: the offsets of every Annotation whose text was placed are the place
\* of that text in the final annotated document
C5_FinalOffsets ==
    \A r \in Requests :
       Generated(r) =>
          \A k \in 1..Len(run[r].annotations) :
             run[r].actualIndexes[k] # -1
                => PointsAtPlacement(run[r].annotations[k], run[r].annotatedText)

----------------------------------------------------------------------------
(* The viewer's and the processor's marker parsers *)

Min(S) == CHOOSE x \in S : \A y \in S : x <= y

Str_quran == <<"q", "u", "r", "a", "n">>
Str_hadith == <<"h", "a", "d", "i", "t", "h">>

\* a match of /\[\[<tag>:([^\|]+)\|([^\]]+)\]\]/ that starts at index p:
\* the first group runs to the first "|", the second to the first "]",
\* both must be non-empty and "]]" must follow
MatchMarkerAt(s, tag, p) ==
    LET prefix == <<"[", "[">> \o tag \o <<":">>
        keyStart == p + Len(prefix)
        bars == {i \in keyStart..(Len(s) - 1) : s[i + 1] = "|"}
    IN  IF ~OccursAt(s, prefix, p) \/ bars = {} \/ keyStart \in bars THEN Null
        ELSE LET bar == Min(bars)
                 closes == {i \in (bar + 1)..(Len(s) - 1) : s[i + 1] = "]"}
             IN  IF closes = {} \/ (bar + 1) \in closes THEN Null
                 ELSE IF ~OccursAt(s, <<"]", "]">>, Min(closes)) THEN Null
                 ELSE Some([index |-> p,
                            lastIndex |-> Min(closes) + 2,
                            reference |-> substring(s, keyStart, bar),
                            display |-> substring(s, bar + 1, Min(closes))])

\* the leftmost match of the pattern for one tag at or behind index from
FirstMatch(s, tag, from) ==
    LET starts == {p \in from..Len(s) : MatchMarkerAt(s, tag, p) # Null}
    IN  IF starts = {} THEN Null ELSE MatchMarkerAt(s, tag, Min(starts))

\* lib/processor parseAnnotation: the quran pattern first, then the hadith one
parseAnnotation(markdown) ==
    LET quranMatch == FirstMatch(markdown, Str_quran, 0)
        hadithMatch == FirstMatch(markdown, Str_hadith, 0)
    IN  IF quranMatch # Null
        THEN Some([type |-> "quran", reference |-> Val(quranMatch).reference,
                   display |-> Val(quranMatch).display])
        ELSE IF hadithMatch # Null
        THEN Some([type |-> "hadith", reference |-> Val(hadithMatch).reference,
                   display |-> Val(hadithMatch).display])
        ELSE Null

\* the leftmost match of /\[\[(quran|hadith):...\]\]/g at or behind from
FirstEitherMatch(s, from) ==
    LET q == FirstMatch(s, Str_quran, from)
        h == FirstMatch(s, Str_hadith, from)
    IN  IF q = Null /\ h = Null THEN Null
        ELSE IF h = Null \/ (q # Null /\ Val(q).index <= Val(h).index)
        THEN Some([type |-> "quran", m |-> Val(q)])
        ELSE Some([type |-> "hadith", m |-> Val(h)])

TextPart(t) == [part |-> "text", type |-> "", reference |-> <<>>, display |-> t]

RECURSIVE ExecLoop(_, _, _)
\* the while-loop over regex.exec and the push of the remaining text
ExecLoop(s, lastIndex, parts) ==
    LET match == FirstEitherMatch(s, lastIndex)
    IN  IF match = Null
        THEN IF lastIndex < Len(s)
             THEN Append(parts, TextPart(substringFrom(s, lastIndex)))
             ELSE parts
        ELSE LET m == Val(match).m
                 before == IF m.index > lastIndex
                           THEN Append(parts, TextPart(substring(s, lastIndex, m.index)))
                           ELSE parts
             IN  ExecLoop(s, m.lastIndex,
                     Append(before, [part |-> "annotation", type |-> Val(match).type,
                                     reference |-> m.reference,
                                     display |-> m.display]))

\* the viewer's parseAnnotationMarkdown: text parts and annotation parts
parseAnnotationMarkdown(s) == ExecLoop(s, 0, <<>>)

----------------------------------------------------------------------------
(* The utilities on their own: the argument is drawn, one step applies    *)

\* longest label of a marker
MaxLabelLen == 2

\* longest text handed to splitIntoChunks and largest size limit
MaxChunkTextLen == 5

MaxChunkLimit == 4

\* longest text handed to normalizeArabic
MaxNormLen == 3

NoPipeline ==
    /\ text = <<>>
    /\ status = "pending"
    /\ db_annotated_text = Null
    /\ db_annotations = <<>>
    /\ pc = [r \in Requests |-> "absent"]
    /\ fetched = [r \in Requests |-> "none"]
    /\ response = [r \in Requests |-> 0]
    /\ run = [r \in Requests |-> NoRun]
    /\ writes = [r \in Requests |-> <<>>]
    /\ externals = "narrow"
    /\ calls = [r \in Requests |-> NoCalls]
    /\ polled = NoPoll

Apply(result) ==
    /\ input # Null
    /\ output = Null
    /\ output' = Some(result)
    /\ UNCHANGED <<text, status, db_annotated_text, db_annotations, pc, fetched,
                   response, run, writes, externals, calls,
                   input,
                   polled>>

VerifiedFor(literal, start, entry, confidence) ==
    [detected |-> Detection(literal, start), match |-> Some(entry),
     confidence |-> confidence, reference_id |-> Some(createReferenceId(entry))]

\* step 4 on two verified matches, in both orders of detection
InitPlace ==
    /\ NoPipeline
    /\ output = Null
    /\ \E t \in {<<"X", " ", "a">>, <<"b", "b", " ", "b", "b">>,
                 <<"b", "b", " ", "X">>} :
       \E first, second \in
             {VerifiedFor(l, st, e, 80) :
                 l \in {<<"X">>, Str_a, <<"b", "b">>}, st \in {0, 2},
                 e \in {Verse(1, 1, 52), Tradition(Str_bukhari, 1, 1, 50)}} :
          input = Some([text |-> t, first |-> first, second |-> second])

PlaceBothOrders ==
    Apply([forward |-> GenerateAnnotations(Val(input).text,
                           <<Val(input).first, Val(input).second>>),
           backward |-> GenerateAnnotations(Val(input).text,
                            <<Val(input).second, Val(input).first>>)])

SpecPlace == InitPlace /\ [][PlaceBothOrders]_vars

\* a marker is built and parsed by both parsers
InitMarker ==
    /\ NoPipeline
    /\ output = Null
    /\ \E e \in {Verse(1, 1, 52), Verse(2, 255, 52), Tradition(Str_bukhari, 1, 1, 50)} :
       \E label \in StringsUpTo({"a", "]", "|", "["}, MaxLabelLen) \ {<<>>} :
          input = Some(VerifiedFor(label, 0, e, 80))

BuildAndParse ==
    LET markdown == createAnnotationMarkdown(Val(input))
    IN  Apply([markdown |-> markdown,
               parsed |-> parseAnnotation(markdown),
               parts |-> parseAnnotationMarkdown(markdown)])

SpecMarker == InitMarker /\ [][BuildAndParse]_vars

\* a text is split into chunks
InitChunk ==
    /\ NoPipeline
    /\ output = Null
    /\ \E t \in StringsUpTo({"a", ".", " ", "\n"}, MaxChunkTextLen) :
       \E limit \in 0..MaxChunkLimit :
          input = Some([text |-> t, maxChunkSize |-> limit])

Split ==
    Apply([chunks |-> splitIntoChunks(Val(input).text, Val(input).maxChunkSize)])

SpecChunk == InitChunk /\ [][Split]_vars

\* a text is normalized, and the result is normalized again
NormAlphabet ==
    {"U064E_FATHA", "U0670_SUPERSCRIPT_ALIF", "U0623", "U0627_ALIF",
     "U0629_TA_MARBUTA", "U0647_HA", "U0649_ALIF_MAKSURA", "U064A_YA",
     "U0624_WAW_HAMZA", "U0648_WAW", "U0626_YA_HAMZA", "U0628_BA", " ", "\n"}

InitNorm ==
    /\ NoPipeline
    /\ output = Null
    /\ \E t \in StringsUpTo(NormAlphabet, MaxNormLen) : input = Some(t)

NormalizeTwice ==
    Apply([once |-> normalizeArabic(Val(input)),
           twice |-> normalizeArabic(normalizeArabic(Val(input)))])

SpecNorm == InitNorm /\ [][NormalizeTwice]_vars

----------------------------------------------------------------------------
(* Claims about the utilities *)

\* the offsets at which a text occurs in a document
Occurrences(document, t) == {i \in 0..Len(document) : OccursAt(document, t, i)}

\* both texts occur in the document and no occurrence of one overlaps an
\* occurrence of the other
DisjointSubstrings(document, a, b) ==
    /\ Occurrences(document, a) # {}
    /\ Occurrences(document, b) # {}
    /\ \A i \in Occurrences(document, a) : \A j \in Occurrences(document, b) :
          i + Len(a) <= j \/ j + Len(b) <= i

\* C6: for two accepted matches whose literal texts are disjoint substrings
\* of the original document, the annotated document is the same whichever
\* of the two was detected first
C6_OrderIndependent ==
    output # Null =>
       LET in == Val(input)
       IN  (/\ Accepted(in.first)
            /\ Accepted(in.second)
            /\ DisjointSubstrings(in.text, in.first.detected.original_text,
                                  in.second.detected.original_text))
              => Val(output).forward.annotatedText
                     = Val(output).backward.annotatedText

\* C7: two accepted matches with the same literal text and the same key, the
\* text occurring twice in the document: the leftmost occurrence carries one
\* marker and the rest of the document is as it was
C7_LeftmostOnce ==
    output # Null =>
       LET in == Val(input)
           literal == in.first.detected.original_text
           at == Min(Occurrences(in.text, literal))
       IN  (/\ Accepted(in.first)
            /\ Accepted(in.second)
            /\ in.second.detected.original_text = literal
            /\ in.second.match = in.first.match
            /\ Cardinality(Occurrences(in.text, literal)) = 2)
              => Val(output).forward.annotatedText
                     = substring(in.text, 0, at)
                          \o createAnnotationMarkdown(in.first)
                          \o substringFrom(in.text, at + Len(literal))

\* does the text contain the sequence ]]
HasCloser(t) == Occurrences(t, <<"]", "]">>) # {}

\* C8: for a label without the sequence ]], both parsers return the kind,
\* the key and the label the marker was built from
C8_MarkerRoundTrip ==
    output # Null =>
       LET v == Val(input)
           label == v.detected.original_text
       IN  ~HasCloser(label) =>
              /\ Val(output).parsed
                    = Some([type |-> Val(v.match).type,
                            reference |-> Val(v.reference_id),
                            display |-> label])
              /\ Val(output).parts
                    = <<[part |-> "annotation", type |-> Val(v.match).type,
                         reference |-> Val(v.reference_id), display |-> label]>>

\* C9: the chunks joined by the paragraph separator are the original text
C9_ChunkReconstruction ==
    output # Null =>
       Join(Val(output).chunks, <<"\n", "\n">>) = Val(input).text

\* C10: normalizing a normalized text changes nothing
C10_NormalizeIdempotent ==
    output # Null => Val(output).twice = Val(output).once

\* C10 witness: a text with a diacritic, a letter variant and whitespace to
\* collapse has been normalized to something else
C10_Witness ==
    /\ output # Null
    /\ \E i \in 1..Len(Val(input)) : Val(input)[i] \in ARABIC_DIACRITICS
    /\ \E i \in 1..Len(Val(input)) : Val(input)[i] = "U0629_TA_MARBUTA"
    /\ \E i \in 1..Len(Val(input)) : IsSpace(Val(input)[i])
    /\ Val(output).once = <<"U0647_HA">>
    /\ Val(output).twice = Val(output).once

----------------------------------------------------------------------------
(* lib/arabic-utils: fuzzy similarity *)

\* longest text handed to fuzzyMatchArabic
MaxFuzzyLen == 2

Min3(a, b, c) == Min({a, b, c})

\* the edit distance without the substitution step of the matrix
levenshteinDistance_NoSubstitution(str1, str2) ==
    LET m == Len(str1)
        n == Len(str2)
        matrix[i \in 0..m, j \in 0..n] ==
            IF i = 0 THEN j
            ELSE IF j = 0 THEN i
            ELSE IF str1[i] = str2[j]
            THEN Min3(matrix[i - 1, j] + 1, matrix[i, j - 1] + 1,
                      matrix[i - 1, j - 1])
            ELSE Min({matrix[i - 1, j] + 1, matrix[i, j - 1] + 1})
    IN  IF m = 0 THEN n
        ELSE IF n = 0 THEN m
        ELSE matrix[m, n]

\* levenshteinDistance: the matrix filled row by row, entry [m][n] returned
levenshteinDistance(str1, str2) ==
    LET m == Len(str1)
        n == Len(str2)
        matrix[i \in 0..m, j \in 0..n] ==
            IF i = 0 THEN j
            ELSE IF j = 0 THEN i
            ELSE LET cost == IF str1[i] = str2[j] THEN 0 ELSE 1
                 IN  Min3(matrix[i - 1, j] + 1, matrix[i, j - 1] + 1,
                          matrix[i - 1, j - 1] + cost)
    IN  IF m = 0 THEN n
        ELSE IF n = 0 THEN m
        ELSE matrix[m, n]

Max(a, b) == IF a >= b THEN a ELSE b

\* fuzzyMatchArabic: the result 1 - distance / maxLength is kept as the
\* fraction (maxLength - distance) / maxLength, and 1.0 as 1 / 1
fuzzyMatchArabic(text1, text2) ==
    LET norm1 == normalizeArabic(text1)
        norm2 == normalizeArabic(text2)
        distance == levenshteinDistance(norm1, norm2)
        maxLength == Max(Len(norm1), Len(norm2))
    IN  IF norm1 = norm2 THEN [num |-> 1, den |-> 1]
        ELSE IF maxLength = 0 THEN [num |-> 1, den |-> 1]
        ELSE [num |-> maxLength - distance, den |-> maxLength]

FuzzyAlphabet ==
    {"U064E_FATHA", "U0629_TA_MARBUTA", "U0647_HA", "U0628_BA", " "}

\* two texts are compared, in both orders and each with itself
InitFuzzy ==
    /\ NoPipeline
    /\ output = Null
    /\ \E x, y \in StringsUpTo(FuzzyAlphabet, MaxFuzzyLen) :
          input = Some([x |-> x, y |-> y])

Compare ==
    Apply([xy |-> fuzzyMatchArabic(Val(input).x, Val(input).y),
           yx |-> fuzzyMatchArabic(Val(input).y, Val(input).x),
           xx |-> fuzzyMatchArabic(Val(input).x, Val(input).x),
           distance |-> levenshteinDistance(normalizeArabic(Val(input).x),
                                            normalizeArabic(Val(input).y))])

SpecFuzzy == InitFuzzy /\ [][Compare]_vars

\* two fractions with positive denominators are the same number
SameNumber(p, q) == p.num * q.den = q.num * p.den

\* C11: a text is similar to itself with 1, the similarity is the same in
\* both orders, it lies between 0 and 1 because the edit distance of the
\* normalized texts is at most the longer length, and it is 1 when both
\* normalized texts are empty
C11_FuzzyAlgebra ==
    output # Null =>
       LET o == Val(output)
           norm1 == normalizeArabic(Val(input).x)
           norm2 == normalizeArabic(Val(input).y)
       IN  /\ SameNumber(o.xx, [num |-> 1, den |-> 1])
           /\ SameNumber(o.xy, o.yx)
           /\ o.xy.den > 0 /\ 0 <= o.xy.num /\ o.xy.num <= o.xy.den
           /\ o.distance <= Max(Len(norm1), Len(norm2))
           /\ (norm1 = <<>> /\ norm2 = <<>>)
                 => SameNumber(o.xy, [num |-> 1, den |-> 1])

\* C11 witness: two texts that differ before and after normalization have
\* been compared and are similar with 1/2
C11_Witness ==
    /\ output # Null
    /\ Val(input).x # Val(input).y
    /\ Len(normalizeArabic(Val(input).x)) = 2
    /\ Val(output).distance = 1
    /\ SameNumber(Val(output).xy, [num |-> 1, den |-> 2])

----------------------------------------------------------------------------
(* Claims about the answers of the external services (SpecCalls) *)

\* the answers of the detection call that are failures
DetectorFailures == {"throws", "empty", "nonJSON", "noField", "notList"}

RECURSIVE CandidatesIn(_)
\* the number of candidates in the list answers of a detection log
CandidatesIn(log) ==
    IF log = <<>> THEN 0
    ELSE (IF Head(log).kind = "list" THEN Len(Head(log).detections) ELSE 0)
             + CandidatesIn(Tail(log))

\* C12: a chunk whose detection call failed in any way contributes no
\* candidate and does not end the run: every answered chunk has advanced the
\* loop over the chunks, the collected candidates are those of the list
\* answers, and a run that has left the loop had every chunk answered
C12_DetectorFailureIsolated ==
    \A r \in Requests :
       LET log == calls[r].detect
       IN  /\ run[r].i = Len(log)
           /\ Len(run[r].allDetections) = CandidatesIn(log)
           /\ (Len(log) > 0 /\ pc[r] # "detect") => Len(log) = Len(run[r].chunks)

\* the embedding or vector search (inside searchAll) or the verification call
\* failed for the candidate with these answers
MatchingFailed(c) ==
    \/ c.search.threw
    \/ c.verify # Null /\ Val(c.verify).kind = "throws"

\* what the answers of a candidate's own calls determine
OwnResult(detection, c) ==
    matchAndVerify(detection, c.search,
                   IF c.verify = Null THEN [kind |-> "empty"] ELSE Val(c.verify))

\* C13: a candidate whose search or verification call failed has a verified
\* match without entry and with confidence 0, every other candidate has the
\* verified match its own answers determine, every answered candidate has a
\* verified match, and the run is not ended by the matching: an ended run
\* with a verified match has one for every candidate
C13_MatcherFailureIsolated ==
    \A r \in Requests :
       /\ Len(calls[r].match) = Len(run[r].verifiedMatches)
       /\ \A j \in 1..Len(calls[r].match) :
             LET c == calls[r].match[j]
                 v == run[r].verifiedMatches[j]
             IN  /\ v.detected = run[r].allDetections[j]
                 /\ MatchingFailed(c) => (v.match = Null /\ v.confidence = 0)
                 /\ ~MatchingFailed(c) => v = OwnResult(run[r].allDetections[j], c)
       /\ (pc[r] \in {"catch", "thrown"} /\ Len(run[r].verifiedMatches) > 0)
             => Len(run[r].verifiedMatches) = Len(run[r].allDetections)
       /\ pc[r] = "match" => Len(run[r].verifiedMatches) < Len(run[r].allDetections)

\* C13 witness: a run with two candidates, the search failing for one and
\* the verification for none, has annotated the other and reached complete
C13_Witness ==
    \E r \in Requests :
       /\ pc[r] = "returned"
       /\ status = "complete"
       /\ Len(calls[r].match) = 2
       /\ \E j, k \in 1..2 :
             /\ j # k
             /\ MatchingFailed(calls[r].match[j])
             /\ ~MatchingFailed(calls[r].match[k])
             /\ run[r].verifiedMatches[j].match = Null
             /\ run[r].verifiedMatches[k].match # Null
       /\ Len(run[r].annotations) = 1
       /\ db_annotations = run[r].annotations

\* the Reference Store returned no entry for the candidate with these answers
NoCandidates(c) == ~c.search.threw /\ c.search.matches = <<>>

RECURSIVE WithCandidates(_, _)
\* the verified matches of the candidates for which an entry was returned
WithCandidates(vs, cs) ==
    IF vs = <<>> THEN <<>>
    ELSE (IF NoCandidates(Head(cs)) THEN <<>> ELSE <<Head(vs)>>)
             \o WithCandidates(Tail(vs), Tail(cs))

\* C14: a candidate for which the Reference Store returned nothing has a
\* verified match without entry and with confidence 0 and no verification
\* call was made for it; the annotated text and the Annotations of the run
\* are those the other candidates give alone, and low_confidence_skipped is
\* their count of skipped plus one for each such candidate
C14_NoCandidatesSkipped ==
    \A r \in Requests :
       /\ \A j \in 1..Len(calls[r].match) :
             NoCandidates(calls[r].match[j])
                => /\ run[r].verifiedMatches[j].match = Null
                   /\ run[r].verifiedMatches[j].confidence = 0
                   /\ calls[r].match[j].verify = Null
       /\ (Generated(r) /\ externals = "traced")
             => LET others == WithCandidates(run[r].verifiedMatches, calls[r].match)
                    alone == GenerateAnnotations(run[r].text, others)
                IN  /\ run[r].annotatedText = alone.annotatedText
                    /\ run[r].annotations = alone.annotations
                    /\ run[r].stats.low_confidence_skipped
                          = alone.low_confidence_skipped
                               + Len(run[r].verifiedMatches) - Len(others)

\* C14 witness: a run with a candidate without returned entries and an
\* annotated candidate has returned, one match counted as skipped
C14_Witness ==
    \E r \in Requests :
       /\ pc[r] = "returned"
       /\ Len(calls[r].match) = 2
       /\ NoCandidates(calls[r].match[1])
       /\ run[r].verifiedMatches[2].match # Null
       /\ Len(run[r].annotations) = 1
       /\ run[r].stats.low_confidence_skipped = 1
       /\ run[r].annotatedText # run[r].text

----------------------------------------------------------------------------
(* The matcher on its own: lib/processor matchAndVerify, and the matcher of *)
(* scripts/seed-quran-continue with its adjudication thresholds            *)

\* most entries searchAll returns for one candidate
MaxCandidates == 2

\* verifyBestMatch of the script: the entry it returns, whether it made its
\* model call, and whether that call's failure left it by exception
verifyBestMatch(candidates, answer) ==
    LET direct(best) == [called |-> FALSE, threw |-> FALSE, best |-> best]
    IN  IF Len(candidates) = 0 THEN direct(Null)
        ELSE IF Len(candidates) = 1 THEN direct(Some(candidates[1]))
        ELSE LET topScore == candidates[1].similarity
                 secondScore == candidates[2].similarity
             IN  IF topScore > 55 THEN direct(Some(candidates[1]))
                 ELSE IF topScore - secondScore > 5
                 THEN direct(Some(candidates[1]))
                 ELSE IF answer.kind = "throws"
                 THEN [called |-> TRUE, threw |-> TRUE, best |-> Null]
                 ELSE LET choice == IF answer.kind = "empty" THEN Some(1)
                                    ELSE answer.number
                      IN  [called |-> TRUE, threw |-> FALSE,
                           best |-> IF choice # Null
                                        /\ Val(choice) >= 1
                                        /\ Val(choice) <= Len(candidates)
                                    THEN Some(candidates[Val(choice)])
                                    ELSE Some(candidates[1])]

\* similarities of returned entries, none below the search threshold 0.3
Similarities == {30, 47, 50, 52, 55, 56, 60}

\* the entry returned at a position of the list, with a similarity
EntryAt(k, sim) ==
    IF k % 3 = 1 THEN Verse(1, 1, sim)
    ELSE IF k % 3 = 2 THEN Tradition(Str_bukhari, 1, 1, sim)
    ELSE Verse(2, 255, sim)

\* the lists searchAll may return: best first
RankedLists ==
    UNION {{[k \in 1..n |-> EntryAt(k, sims[k])] :
               sims \in {f \in [1..n -> Similarities] :
                            \A k \in 1..(n - 1) : f[k] >= f[k + 1]}} :
           n \in 0..MaxCandidates}

\* what the verification call may answer to matchAndVerify
VerificationAnswers ==
    {[kind |-> k] : k \in {"throws", "empty", "nonJSON"}}
    \cup {[kind |-> "json", match_index |-> i, confidence |-> c] :
             i \in {Null} \cup {Some(n) : n \in {-1, 0, 1, 2, 5}},
             c \in {-10, 0, 30, 52, 80, 150}}

\* what the model call of the script may answer: no content, or content
\* parseInt reads as NaN (null here) or as a number
ChoiceAnswers ==
    {[kind |-> "throws"], [kind |-> "empty"]}
    \cup {[kind |-> "text", number |-> n] :
             n \in {Null} \cup {Some(k) : k \in 0..3}}

\* one candidate, the answer of its search and the answers of the model calls
InitMatch ==
    /\ NoPipeline
    /\ output = Null
    /\ \E search \in {[threw |-> TRUE, matches |-> <<>>]}
                        \cup {[threw |-> FALSE, matches |-> l] : l \in RankedLists},
          resp \in VerificationAnswers, answer \in ChoiceAnswers :
          input = Some([detection |-> Detection(Str_a, 0), search |-> search,
                        resp |-> resp, answer |-> answer])

MatchOne ==
    Apply([verified |-> matchAndVerify(Val(input).detection, Val(input).search,
                                       Val(input).resp),
           called |-> VerifyCalled(Val(input).search),
           script |-> verifyBestMatch(Val(input).search.matches,
                                      Val(input).answer)])

SpecMatch == InitMatch /\ [][MatchOne]_vars

\* C15: with the two best similarities 0.52 and 0.50 the verification call
\* is made, and when it answers index 1 the verified match is the second
\* entry with confidence 0.52
C15_CloseScores ==
    output # Null =>
       LET in == Val(input)
           matches == in.search.matches
       IN  (/\ ~in.search.threw
            /\ Len(matches) >= 2
            /\ matches[1].similarity = 52
            /\ matches[2].similarity = 50)
              => /\ Val(output).called
                 /\ (in.resp.kind = "json" /\ in.resp.match_index = Some(1))
                       => /\ Val(output).verified.match = Some(matches[2])
                          /\ Val(output).verified.confidence = 52

\* the condition under which adjudication is due: two entries or more, the
\* best similarity below 0.55 and less than 0.05 above the second
AdjudicationDue(search) ==
    /\ ~search.threw
    /\ Len(search.matches) >= 2
    /\ search.matches[1].similarity < 55
    /\ search.matches[1].similarity - search.matches[2].similarity < 5

\* C18: the verification call is made for a candidate exactly when the
\* search returned two entries or more, the best similarity is below 0.55
\* and the two best are less than 0.05 apart; without the call the best
\* entry is the match and its similarity the confidence
C18_AdjudicationCondition ==
    output # Null =>
       LET in == Val(input)
           v == Val(output).verified
       IN  /\ Val(output).called <=> AdjudicationDue(in.search)
           /\ (~in.search.threw /\ Len(in.search.matches) >= 1
                  /\ ~AdjudicationDue(in.search))
                 => /\ v.match = Some(in.search.matches[1])
                    /\ v.confidence = in.search.matches[1].similarity

\* C19: the confidence of a verified match with an entry is a similarity the
\* search returned: that of the chosen entry when the verification call was
\* made, that of the best entry when it was not
C19_ConfidenceIsSimilarity ==
    output # Null =>
       LET in == Val(input)
           v == Val(output).verified
       IN  v.match # Null =>
              IF Val(output).called
              THEN v.confidence = Val(v.match).similarity
              ELSE v.confidence = in.search.matches[1].similarity

\* C20: when the verification call answers an index outside the list of
\* entries, the verified match is the best entry
C20_OutOfRangeDefaultsToTop ==
    output # Null =>
       LET in == Val(input)
           v == Val(output).verified
       IN  (/\ Val(output).called
            /\ in.resp.kind = "json"
            /\ in.resp.match_index # Null
            /\ Val(in.resp.match_index) \notin 0..(Len(in.search.matches) - 1))
              => v.match = Some(in.search.matches[1])

----------------------------------------------------------------------------
(* Claims about the persistence of the results (Spec) *)

\* the run has issued the write of its results and that write did not succeed
FinalWriteFailed(r) ==
    \E i \in 1..Len(writes[r]) :
       writes[r][i].status = "complete" /\ writes[r][i].outcome # "ok"

\* C16: a run returns its result only with the results persisted (the
\* annotated text, the status complete and the Annotation records), and a
\* run whose write of the results failed does not return but reports the
\* failure
C16_PersistFailureSurfaces ==
    \A r \in Requests :
       /\ pc[r] = "returned"
             => /\ status = "complete"
                /\ db_annotated_text = Some(run[r].annotatedText)
                /\ db_annotations = run[r].annotations
       /\ FinalWriteFailed(r) => pc[r] \in {"catch", "thrown"}

----------------------------------------------------------------------------
(* Step 4 on a single verified match *)

\* longest document of a single placement
MaxDocLen == 3

\* a document and one verified match
InitSingle ==
    /\ NoPipeline
    /\ output = Null
    /\ \E t \in StringsUpTo({"a", "A", "I_DOT", " "}, MaxDocLen),
          literal \in StringsUpTo({"a", "A"}, 2) \ {<<>>},
          e \in {Verse(2, 255, 52), Tradition(Str_bukhari, 1, 1, 50)},
          confidence \in {30, 50, 80} :
          input = Some([text |-> t, verified |-> VerifiedFor(literal, 0, e, confidence)])

PlaceOne ==
    Apply(GenerateAnnotations(Val(input).text, <<Val(input).verified>>))

SpecSingle == InitSingle /\ [][PlaceOne]_vars

\* the offsets of the document at which a text occurs, letter case ignored
OccurrencesIgnoringCase(document, t) ==
    {i \in 0..(Len(document) - Len(t)) :
        toLowerCase(substring(document, i, i + Len(t))) = toLowerCase(t)}

\* C17: for a document in which the literal text of an accepted match
\* occurs once, the annotated document is the original with that occurrence
\* replaced by the marker of the match and nothing else changed, and there
\* is one Annotation, with the kind, the key and the confidence of the match
C17_SinglePlacement ==
    output # Null =>
       LET in == Val(input)
           v == in.verified
           literal == v.detected.original_text
           found == OccurrencesIgnoringCase(in.text, literal)
       IN  (Accepted(v) /\ Cardinality(found) = 1)
              => LET at == Min(found)
                 IN  /\ Val(output).annotatedText
                           = substring(in.text, 0, at)
                                \o createAnnotationMarkdown(v)
                                \o substringFrom(in.text, at + Len(literal))
                     /\ Len(Val(output).annotations) = 1
                     /\ AnnotationOf(Val(output).annotations[1], v)

----------------------------------------------------------------------------
(* Claims about declined candidates and the statistics (SpecCalls) *)

\* the verification call was made and declared no entry correct
Declined(c) ==
    /\ c.verify # Null
    /\ Val(c.verify).kind = "json"
    /\ Val(c.verify).match_index = Null

RECURSIVE NotDeclined(_, _)
\* the verified matches of the candidates that were not declined
NotDeclined(vs, cs) ==
    IF vs = <<>> THEN <<>>
    ELSE (IF Declined(Head(cs)) THEN <<>> ELSE <<Head(vs)>>)
             \o NotDeclined(Tail(vs), Tail(cs))

C28_StatsPartition ==
    \A r \in Requests :
       Generated(r) =>
          run[r].stats.total_detected
             = run[r].stats.quran_matches + run[r].stats.hadith_matches
                  + run[r].stats.low_confidence_skipped

----------------------------------------------------------------------------
(* Further claims about the matcher on its own (SpecMatch) *)

\* C24: the confidence of every verified match, whatever the search
\* returned and the verification call answered, lies between 0 and 1
C24_ConfidenceRange ==
    output # Null =>
       /\ Val(output).verified.confidence >= 0
       /\ Val(output).verified.confidence <= 100

----------------------------------------------------------------------------
(* lib/rag: searchAll over the two search functions of the database *)

\* most rows of one corpus table, and largest limit of a search
MaxCorpus == 2

MaxLimit == 2

RECURSIVE InsertBySimilarity(_, _)
\* x goes behind every element that does not sort after it
InsertBySimilarity(x, sorted) ==
    IF sorted = <<>> THEN <<x>>
    ELSE IF Head(sorted).similarity >= x.similarity
         THEN <<Head(sorted)>> \o InsertBySimilarity(x, Tail(sorted))
    ELSE <<x>> \o sorted

RECURSIVE SortBySimilarityDesc(_, _)
\* descending by similarity, rows of equal similarity in the order given
SortBySimilarityDesc(rows, sorted) ==
    IF rows = <<>> THEN sorted
    ELSE SortBySimilarityDesc(Tail(rows), InsertBySimilarity(Head(rows), sorted))

\* Array.prototype.slice(0, n) and SQL LIMIT n
Take(rows, n) == SubSeq(rows, 1, Min({n, Len(rows)}))

\* search_quran_verses and search_hadith: the rows above the threshold,
\* nearest first, at most match_count of them
search_rows(table, match_threshold, match_count) ==
    Take(SortBySimilarityDesc(
             SelectSeq(table, LAMBDA row : row.similarity > match_threshold),
             <<>>),
         match_count)

\* a merge of the two results that is cut without being sorted again
searchAll_Unsorted(verses, traditions, threshold, limit) ==
    Take(search_rows(verses, threshold, limit)
            \o search_rows(traditions, threshold, limit), limit)

\* searchAll: both kinds with the same threshold and limit, merged, sorted
\* again, cut to the limit
searchAll(verses, traditions, threshold, limit) ==
    LET quranResults == search_rows(verses, threshold, limit)
        hadithResults == search_rows(traditions, threshold, limit)
        results == [k \in 1..Len(quranResults) |->
                       [reference |-> quranResults[k].row,
                        similarity |-> quranResults[k].similarity,
                        type |-> "quran"]]
                   \o [k \in 1..Len(hadithResults) |->
                          [reference |-> hadithResults[k].row,
                           similarity |-> hadithResults[k].similarity,
                           type |-> "hadith"]]
    IN  Take(SortBySimilarityDesc(results, <<>>), limit)

\* the similarities of the rows to a query
RowSimilarities == {30, 50, 52}

\* the tables with each row's similarity to the query, in any physical order
Tables ==
    UNION {{[k \in 1..n |-> [row |-> k, similarity |-> sims[k]]] :
               sims \in [1..n -> RowSimilarities]} : n \in 0..MaxCorpus}

InitSearch ==
    /\ NoPipeline
    /\ output = Null
    /\ \E verses \in Tables, traditions \in Tables, threshold \in {30, 50},
          limit \in 0..MaxLimit :
          input = Some([verses |-> verses, traditions |-> traditions,
                        threshold |-> threshold, limit |-> limit])

Search ==
    Apply(searchAll(Val(input).verses, Val(input).traditions,
                    Val(input).threshold, Val(input).limit))

SpecSearch == InitSearch /\ [][Search]_vars

\* the rows of both tables above the threshold, as results of their kind
Qualifying(in) ==
    {[reference |-> in.verses[k].row, similarity |-> in.verses[k].similarity,
      type |-> "quran"] :
        k \in {j \in 1..Len(in.verses) : in.verses[j].similarity > in.threshold}}
    \cup
    {[reference |-> in.traditions[k].row,
      similarity |-> in.traditions[k].similarity, type |-> "hadith"] :
        k \in {j \in 1..Len(in.traditions) :
                  in.traditions[j].similarity > in.threshold}}

----------------------------------------------------------------------------
(* Further claims about splitIntoChunks (SpecChunk) *)

\* the text is one sentence of one paragraph
SingleSentence(t) ==
    Len(SplitParagraphs(t, <<>>)) = 1 /\ Len(SplitSentences(t, <<>>)) = 1

\* every sentence of every paragraph of the text, but for the whitespace
\* around it, is inside one of the chunks
SentencesKeptWhole(t, chunks) ==
    LET paragraphs == SplitParagraphs(t, <<>>)
    IN  \A p \in 1..Len(paragraphs) :
           LET sentences == SplitSentences(paragraphs[p], <<>>)
           IN  \A k \in 1..Len(sentences) :
                  trim(sentences[k]) # <<>>
                     => \E c \in 1..Len(chunks) :
                           Occurrences(chunks[c], trim(sentences[k])) # {}

\* C23: no sentence is split across two chunks, and a chunk longer than
\* maxChunkSize is a single sentence
C23_ChunkSize ==
    output # Null =>
       LET chunks == Val(output).chunks
       IN  /\ SentencesKeptWhole(Val(input).text, chunks)
           /\ \A c \in 1..Len(chunks) :
                 Len(chunks[c]) <= Val(input).maxChunkSize
                    \/ SingleSentence(chunks[c])

\* the characters of a text that are not whitespace, in order
NonWhitespace(t) == SelectSeq(t, LAMBDA c : ~IsSpace(c))

RECURSIVE Flatten(_)
\* the chunks one after the other
Flatten(chunks) ==
    IF chunks = <<>> THEN <<>> ELSE Head(chunks) \o Flatten(Tail(chunks))

\* C30: the characters of the chunks that are not whitespace, in the order
\* of the chunks, are those of the text
C30_ChunkContent ==
    output # Null =>
       NonWhitespace(Flatten(Val(output).chunks)) = NonWhitespace(Val(input).text)

\* C30 witness: a paragraph over the limit has been split by sentences, its
\* last sentence in a chunk of its own
C30_Witness ==
    /\ output # Null
    /\ Val(input).text = <<"a", ".", " ", "a", ".">>
    /\ Val(input).maxChunkSize = 3
    /\ Val(output).chunks = <<<<"a", ".">>, <<"a", ".">>>>

----------------------------------------------------------------------------
(* Further claims about the placement (SpecPlace, SpecSingle) *)

\* a marker opens before an earlier one has closed
Nested(document) ==
    \E i, j \in Occurrences(document, <<"[", "[">>) :
       /\ i < j
       /\ ~\E k \in Occurrences(document, <<"]", "]">>) : i < k /\ k < j

\* C25: in the annotated text no marker lies inside another or overlaps it,
\* whichever accepted matches were placed and in whichever order
C25_NoNestedMarkers ==
    output # Null =>
       /\ ~Nested(Val(output).forward.annotatedText)
       /\ ~Nested(Val(output).backward.annotatedText)

RECURSIVE Displays(_)
\* the text parts and the labels of the markers, one after the other
Displays(parts) ==
    IF parts = <<>> THEN <<>> ELSE Head(parts).display \o Displays(Tail(parts))

\* the document with every marker replaced by its label
LabelsOnly(document) == Displays(parseAnnotationMarkdown(document))

\* C26: the annotated text with every marker replaced by its label is the
\* original text
C26_OnlyWrapping ==
    output # Null => LabelsOnly(Val(output).annotatedText) = Val(input).text

----------------------------------------------------------------------------
(* api/process GET: the status poll of the ProcessingStatus component, next *)
(* to a run                                                                 *)

\* the handler's select of the transcript row
GetSelect ==
    /\ polled.pc = "idle"
    /\ \E found \in BOOLEAN :
          polled' = IF found
                    THEN [polled EXCEPT !.pc = "selected", !.status = status]
                    ELSE [polled EXCEPT !.pc = "answered", !.code = 404]
    /\ UNCHANGED <<text, status, db_annotated_text, db_annotations, pc, fetched,
                   response, run, writes, externals, calls, input, output>>

\* the select of the annotations when the status read was complete (a
\* failed select leaves data null), then the answer
GetAnswer ==
    /\ polled.pc = "selected"
    /\ \E data \in IF polled.status = "complete"
                   THEN {Null, Some(db_annotations)} ELSE {Null} :
          polled' = [polled EXCEPT
                       !.pc = "answered",
                       !.code = 200,
                       !.annotations = IF data = Null THEN <<>> ELSE Val(data)]
    /\ UNCHANGED <<text, status, db_annotated_text, db_annotations, pc, fetched,
                   response, run, writes, externals, calls, input, output>>

\* the component polls again until it has read complete or error
GetAgain ==
    /\ polled.pc = "answered"
    /\ polled.code = 200
    /\ polled.status \notin {"complete", "error"}
    /\ polled' = [NoPoll EXCEPT !.pc = "idle"]
    /\ UNCHANGED <<text, status, db_annotated_text, db_annotations, pc, fetched,
                   response, run, writes, externals, calls, input, output>>

NextPoll == Next \/ GetSelect \/ GetAnswer \/ GetAgain

\* one start request and the status poll
InitPoll ==
    /\ text \in Transcripts
    /\ status = "pending"
    /\ db_annotated_text = Null
    /\ db_annotations = <<>>
    /\ pc = [r \in Requests |-> IF r = 1 THEN "idle" ELSE "absent"]
    /\ fetched = [r \in Requests |-> "none"]
    /\ response = [r \in Requests |-> 0]
    /\ run = [r \in Requests |-> NoRun]
    /\ writes = [r \in Requests |-> <<>>]
    /\ externals = "narrow"
    /\ calls = [r \in Requests |-> NoCalls]
    /\ polled = [NoPoll EXCEPT !.pc = "idle"]
    /\ input = Null
    /\ output = Null

SpecPoll == InitPoll /\ [][NextPoll]_vars

\* C27: a poll answered with status complete carries the Annotation
\* records of the run that completed
C27_CompleteHasAnnotations ==
    (polled.pc = "answered" /\ polled.code = 200 /\ polled.status = "complete")
       => \E r \in Requests :
             /\ Generated(r)
             /\ polled.annotations = run[r].annotations

----------------------------------------------------------------------------
(* Progress of a run: every awaited call returns or fails, so a step that  *)
(* can be taken is taken                                                   *)

\* the positions at which a handler or a run has a step to take
Running ==
    {"idle", "selected", "start", "detect", "match", "annotate", "save", "insert",
     "catch"}

Positions == Running \cup {"absent", "answered", "returned", "thrown"}

\* the handler or run of request r leaves the position it is at
Leaves(r) ==
    /\ pc[r] \in Running
    /\ \E p \in Positions \ {pc[r]} : pc' = [pc EXCEPT ![r] = p]

\* a handler or run does not stay at a position for ever
SpecLive == Init /\ [][Next]_vars /\ \A r \in Requests : WF_pc(Leaves(r))

\* the run has persisted status processing
SetProcessing(r) ==
    \E i \in 1..Len(writes[r]) :
       writes[r][i].status = "processing" /\ writes[r][i].outcome = "ok"

\* the run has tried to persist status error and that write did not succeed
ErrorWriteFailed(r) ==
    \E i \in 1..Len(writes[r]) :
       writes[r][i].status = "error" /\ writes[r][i].outcome # "ok"

\* C29: after a run has persisted status processing, the status becomes
\* complete or error, whatever the detector, the matcher and the writes of
\* the results answer (a run whose write of error itself failed is left out)
C29_EventuallyTerminal ==
    \A r \in Requests :
       SetProcessing(r) ~> (status \in {"complete", "error"} \/ ErrorWriteFailed(r))

====
